---- MODULE Spec2Model ----
(***************************************************************************)
(* WriteBatch of turbo-persistence (write_batch.rs): thread-local          *)
(* collectors drain into per-family shared collectors, full shared         *)
(* collectors are swapped out and written as SST files, oversized values   *)
(* are written as blob files, and finish flushes everything in parallel.   *)
(*                                                                         *)
(* A process is either the caller <<thread, 0>> that runs put/delete or a  *)
(* task <<thread, family>> that finish spawns for one harvested            *)
(* thread-local collector.  Both run flush_thread_local_collector.         *)
(* A file is modelled by what was handed to its writer; a value by its     *)
(* length.  An Option or a Result is a sequence of length 0 or 1.          *)
(* The mutex of a shared collector is held across steps; every other mutex *)
(* is taken and dropped within one statement, hence within one step, and   *)
(* lock_order records what was held when it was taken.  Spec, SpecRace and *)
(* SpecLive run one batch up to the return of finish; SpecCycle and        *)
(* SpecPool go on with reset and further batches; SpecVerify runs the      *)
(* verify_sst_content block of create_sst_file on one written file.        *)
(***************************************************************************)
EXTENDS Integers, Sequences, FiniteSets, TLC

\* ------------------------------------------------------------------ bounds
NThreads == 2
NFamilies == 2
NKeys == 2
MaxOps == 3
MaxFail == 1
RaceThreads == 3
RaceOps == 4
RaceFail == 2
CycleThreads == 2
CycleOps == 2
CycleFail == 1
CycleEvents == 5
PoolOps == 2
PoolEvents == 6
VerifyValues == 2
MaxVerify == 2

\* ------------------------------------------------------- program constants
\* constants.rs is imported at write_batch.rs:24; the values are scaled down.
MAX_MEDIUM_VALUE_SIZE == 1
THREAD_LOCAL_SIZE_SHIFT == 1
\* Capacity of a shared collector (size shift 0), in bytes of key + value.
DATA_THRESHOLD == 4
\* Byte length of a serialised key.
KEY_SIZE == 1

\* ----------------------------------------------------------- configuration
\* The inputs a specification draws from.
CfgMain ==
    [threads |-> 1..NThreads, families |-> 1..NFamilies, keys |-> 1..NKeys,
     lens |-> {MAX_MEDIUM_VALUE_SIZE - 1, MAX_MEDIUM_VALUE_SIZE, MAX_MEDIUM_VALUE_SIZE + 1},
     ops |-> MaxOps, fail |-> MaxFail, initial |-> {0},
     reuse |-> FALSE, events |-> 1, resets |-> {0}]

CfgRace ==
    [threads |-> 1..RaceThreads, families |-> {1}, keys |-> {1},
     lens |-> {MAX_MEDIUM_VALUE_SIZE}, ops |-> RaceOps, fail |-> RaceFail,
     initial |-> {0}, reuse |-> FALSE, events |-> 1, resets |-> {0}]

\* A batch that is reused: finish and reset may be called events times in all.
CfgCycle ==
    [threads |-> 1..CycleThreads, families |-> 1..NFamilies, keys |-> {1},
     lens |-> {MAX_MEDIUM_VALUE_SIZE, MAX_MEDIUM_VALUE_SIZE + 1},
     ops |-> CycleOps, fail |-> CycleFail, initial |-> {0},
     reuse |-> TRUE, events |-> CycleEvents, resets |-> {1, 4}]

\* Many batch cycles of one thread.
CfgPool ==
    [threads |-> {1}, families |-> 1..NFamilies, keys |-> {1},
     lens |-> {MAX_MEDIUM_VALUE_SIZE}, ops |-> PoolOps, fail |-> 0,
     initial |-> {0}, reuse |-> TRUE, events |-> PoolEvents, resets |-> {0}]

\* ------------------------------------------------------------------- state
VARIABLES
    current_sequence_number,      \* AtomicU32
    thread_locals,                \* thread -> ThreadLocalState
    collectors,                   \* family -> shared collector (behind a Mutex)
    new_sst_files,                \* Mutex<Vec<(u32, File)>>
    idle_collectors,              \* Mutex<Vec<Collector>>
    idle_thread_local_collectors, \* Mutex<Vec<Collector<THREAD_LOCAL_SIZE_SHIFT>>>
    pc,                           \* process -> position in its call
    call,                         \* thread -> arguments of the put/delete in progress
    task_collector,               \* task -> the collector moved into its closure
    full_collectors,              \* process -> SmallVec of swapped-out collectors
    sst,                          \* process -> Result of create_sst_file, not yet pushed
    fin,                          \* locals of finish
    reduce,                       \* family -> item of the parallel iterator of finish
    locked,                       \* family -> holder of the Mutex of self.collectors[family]
    result,                       \* what finish returned
    \* history, for the properties
    initial_sequence_number,      \* the value given to new / reset
    accepted,                     \* entries appended by calls that returned Ok
    builder_calls,                \* every call of StaticSortedFileBuilder::new ... write
    blob_files,                   \* every call of create_blob
    recorded,                     \* errors stored into shared_error, in order
    returned_err,                 \* a put or delete of this batch returned Err
    ops_done,                     \* thread -> calls started
    fails,                        \* write failures injected so far
    allocations,                  \* calls of Collector::new so far
    lock_order,                   \* the lock acquisitions seen: what was held, what was taken
    life,                         \* the calls of finish and reset so far, whether every
                                  \* call came in the order new (finish reset)*, and
                                  \* the counter the last reset overwrote
    verification                  \* the verify_sst_content block of one create_sst_file

batch_vars ==
    <<current_sequence_number, thread_locals, collectors, new_sst_files,
      idle_collectors, idle_thread_local_collectors, pc, call, task_collector,
      full_collectors, sst, fin, reduce, result, initial_sequence_number,
      accepted, builder_calls, blob_files, recorded, returned_err, ops_done, fails,
      locked, allocations, lock_order, life>>

vars == <<batch_vars, verification>>

\* --------------------------------------------------------------- Collector
\* An entry: key, value class, inline length or blob sequence number; fam and
\* id (thread, call number) record where it came from.
Entry(key_, kind_, val_, fam_, id_) ==
    [key |-> key_, kind |-> kind_, val |-> val_, fam |-> fam_, id |-> id_]

EntryCost(e) == KEY_SIZE + (IF e.kind = "Inline" THEN e.val ELSE 0)

RECURSIVE TotalSize(_)
TotalSize(entries) ==
    IF entries = <<>> THEN 0
    ELSE EntryCost(Head(entries)) + TotalSize(Tail(entries))

CollectorNew == <<>>

is_full(entries, shift) ==
    TotalSize(entries) >= DATA_THRESHOLD \div (2 ^ shift)

is_empty(entries) == entries = <<>>

\* Stable insertion of e into a key-sorted sequence: after every entry whose
\* key is less than or equal to e's.
RECURSIVE InsertByKey(_, _)
InsertByKey(s, e) ==
    IF s = <<>> THEN <<e>>
    ELSE IF Head(s).key <= e.key THEN <<Head(s)>> \o InsertByKey(Tail(s), e)
    ELSE <<e>> \o s

RECURSIVE SortedFrom(_, _)
SortedFrom(done, rest) ==
    IF rest = <<>> THEN done
    ELSE SortedFrom(InsertByKey(done, Head(rest)), Tail(rest))

sorted(entries) == SortedFrom(<<>>, entries)

\* Vec::pop: the last element, when there is one.
PopOr(pool, fresh) == IF pool = <<>> THEN fresh ELSE pool[Len(pool)]
PopRest(pool) == IF pool = <<>> THEN pool ELSE SubSeq(pool, 1, Len(pool) - 1)

\* ------------------------------------------------------------- WriteBatch
\* A process <<t, 0>> is caller thread t; <<t, f>> with f # 0 is the task that
\* finish spawns for thread t's collector of family f.
Threads == DOMAIN thread_locals
Families == DOMAIN collectors
Procs == DOMAIN pc
IsTask(p) == p[2] # 0
Caller(t) == <<t, 0>>
TaskProcs == {p \in Procs : IsTask(p)}

Active == fin.pc = "active"

\* put, delete, finish and reset test no state of the batch: a batch that is
\* kept after finish (c.reuse) takes them again once finish has returned.
Usable(c) == fin.pc = "active" \/ (c.reuse /\ fin.pc = "finished")

\* The mutexes of the batch and of finish.
CollectorsMutex(f) == <<"collectors", f>>
IdleCollectorsMutex == <<"idle_collectors", 0>>
IdleThreadLocalMutex == <<"idle_thread_local_collectors", 0>>
NewSstFilesMutex == <<"new_sst_files", 0>>
SharedErrorMutex == <<"shared_error", 0>>
SharedNewSstFilesMutex == <<"shared_new_sst_files", 0>>

\* The guards process p holds across steps: only `global_collector` of
\* flush_thread_local_collector lives longer than one statement.
Held(p) == {CollectorsMutex(f) : f \in {g \in DOMAIN locked : locked[g] = <<p>>}}

\* One call of Mutex::lock, made while the guards in held are alive.
Acquire(held, lock) == [held |-> held, lock |-> lock]

\* Parking-lot guards: lock returns once no other guard of the mutex is
\* alive; the mutex is unlocked when the guard is dropped.
CanLockAlways(mutexes, f) == TRUE
CanLock(mutexes, f) == mutexes[f] = <<>>
UnlockForgotten(mutexes, f) == mutexes
unlock(mutexes, f) == [mutexes EXCEPT ![f] = <<>>]
lock(mutexes, f, p) == [mutexes EXCEPT ![f] = <<p>>]

\* AtomicU32::fetch_add(1, SeqCst) + 1.  The counter stays far below 2^32 here.
FetchAddBroken(cur) == cur
fetch_add(cur) == cur + 1

\* A write may fail while the failure budget lasts.
Outcomes(c) == IF fails < c.fail THEN {TRUE, FALSE} ELSE {TRUE}

Err(kind_, seq_) == [kind |-> kind_, seq |-> seq_]

\* An SST file: its sequence number and what the builder was given.
SstFile(seq_, family_, entries_) ==
    [seq |-> seq_, family |-> family_, entries |-> entries_]

NoResult == <<>>
OkResult(seq_, ssts_, blobs_) ==
    <<[ok |-> TRUE, err |-> <<>>, sequence_number |-> seq_,
       new_sst_files |-> ssts_, new_blob_files |-> blobs_]>>
ErrResult(e) ==
    <<[ok |-> FALSE, err |-> <<e>>, sequence_number |-> 0,
       new_sst_files |-> <<>>, new_blob_files |-> <<>>]>>

\* WriteBatch::new
InitBatch(c) ==
    /\ current_sequence_number \in c.initial
    /\ initial_sequence_number = current_sequence_number
    /\ thread_locals =
         [t \in c.threads |->
            [collectors |-> [f \in c.families |-> <<>>], new_blob_files |-> <<>>]]
    /\ collectors = [f \in c.families |-> CollectorNew]
    /\ new_sst_files = <<>>
    /\ idle_collectors = <<>>
    /\ idle_thread_local_collectors = <<>>
    /\ pc = [p \in c.threads \X ({0} \cup c.families) |->
               IF p[2] = 0 THEN "idle" ELSE "none"]
    /\ call = [t \in c.threads |-> <<>>]
    /\ task_collector = [p \in c.threads \X c.families |-> CollectorNew]
    /\ full_collectors = [p \in c.threads \X ({0} \cup c.families) |-> <<>>]
    /\ sst = [p \in c.threads \X ({0} \cup c.families) |-> <<>>]
    /\ fin = [pc |-> "active", new_sst_files |-> <<>>, new_blob_files |-> <<>>,
              shared_error |-> <<>>]
    /\ reduce = [f \in c.families |-> [st |-> "none", collector |-> CollectorNew,
                                        out |-> <<>>]]
    /\ result = NoResult
    /\ accepted = {}
    /\ builder_calls = <<>>
    /\ blob_files = <<>>
    /\ recorded = <<>>
    /\ returned_err = FALSE
    /\ ops_done = [t \in c.threads |-> 0]
    /\ fails = 0
    /\ locked = [f \in c.families |-> <<>>]
    /\ allocations = Cardinality(c.families)
    /\ lock_order = {}
    /\ life = [finishes |-> 0, resets |-> 0, proper |-> TRUE, previous |-> 0]

\* The build without the feature verify_sst_content.
NotVerifying == [entries |-> <<>>, at |-> 0, outcome |-> "none"]

Init(c) == InitBatch(c) /\ verification = NotVerifying

\* put: value.len() <= MAX_MEDIUM_VALUE_SIZE
IsInlineStrict(len) == len < MAX_MEDIUM_VALUE_SIZE
IsInline(len) == len <= MAX_MEDIUM_VALUE_SIZE

\* The entry a call appends; blob is the sequence number create_blob returned.
CallEntryNextBlob(cl, blob) ==
    IF cl.op = "delete" THEN Entry(cl.key, "Tombstone", 0, cl.family, cl.id)
    ELSE IF IsInline(cl.len) THEN Entry(cl.key, "Inline", cl.len, cl.family, cl.id)
    ELSE Entry(cl.key, "Blob", blob + 1, cl.family, cl.id)
CallEntry(cl, blob) ==
    IF cl.op = "delete" THEN Entry(cl.key, "Tombstone", 0, cl.family, cl.id)
    ELSE IF IsInline(cl.len) THEN Entry(cl.key, "Inline", cl.len, cl.family, cl.id)
    ELSE Entry(cl.key, "Blob", blob, cl.family, cl.id)

NeedsBlob(cl) == cl.op = "put" /\ ~IsInline(cl.len)

\* The tail of put and delete, once thread_local_collector_mut has returned the
\* collector: collector.put / create_blob + put_blob / collector.delete.
\* tl is thread_locals as thread_local_collector_mut left it.
AppendEntry(c, t, cl, tl) ==
    \E ok \in (IF NeedsBlob(cl) THEN Outcomes(c) ELSE {TRUE}) :
        LET seq == fetch_add(current_sequence_number)
            e == CallEntry(cl, seq)
        IN  /\ current_sequence_number' =
                 IF NeedsBlob(cl) THEN seq ELSE current_sequence_number
            /\ blob_files' =
                 IF NeedsBlob(cl)
                 THEN Append(blob_files, [seq |-> seq, len |-> cl.len, ok |-> ok, id |-> cl.id])
                 ELSE blob_files
            /\ thread_locals' =
                 IF ok
                 THEN [tl EXCEPT ![t].collectors[cl.family] = <<Append(@[1], e)>>,
                                 ![t].new_blob_files =
                                     IF NeedsBlob(cl) THEN Append(@, seq) ELSE @]
                 ELSE tl
            /\ accepted' = IF ok THEN accepted \cup {e} ELSE accepted
            /\ returned_err' = (returned_err \/ ~ok)
            /\ fails' = IF ok THEN fails ELSE fails + 1
            /\ pc' = [pc EXCEPT ![Caller(t)] = "idle"]

RECURSIVE SumOver(_, _)
SumOver(f, S) ==
    IF S = {} THEN 0
    ELSE LET x == CHOOSE y \in S : TRUE IN f[x] + SumOver(f, S \ {x})

\* The calls of put and delete started so far, over all threads.
CallsStarted == SumOver(ops_done, DOMAIN ops_done)

\* put and delete up to the first shared access: thread_local_state,
\* thread_local_collector_mut (get_or_insert_with, is_full), and, when the
\* collector is not full, the append itself.
CallStart(c, t, cl) ==
    LET slot == thread_locals[t].collectors[cl.family]
        collector == IF slot = <<>>
                     THEN PopOr(idle_thread_local_collectors, CollectorNew)
                     ELSE slot[1]
        tl == [thread_locals EXCEPT ![t].collectors[cl.family] = <<collector>>]
    IN  /\ Usable(c)
        /\ pc[Caller(t)] = "idle"
        /\ CallsStarted < c.ops
        /\ ops_done' = [ops_done EXCEPT ![t] = @ + 1]
        /\ allocations' =
             IF slot = <<>> /\ idle_thread_local_collectors = <<>>
             THEN allocations + 1 ELSE allocations
        /\ lock_order' =
             IF slot = <<>>
             THEN lock_order \cup {Acquire(Held(Caller(t)), IdleThreadLocalMutex)}
             ELSE lock_order
        /\ life' = [life EXCEPT !.proper = @ /\ Active]
        /\ idle_thread_local_collectors' =
             IF slot = <<>> THEN PopRest(idle_thread_local_collectors)
             ELSE idle_thread_local_collectors
        /\ IF is_full(collector, THREAD_LOCAL_SIZE_SHIFT)
           THEN /\ pc' = [pc EXCEPT ![Caller(t)] = "flush"]
                /\ call' = [call EXCEPT ![t] = cl]
                /\ thread_locals' = tl
                /\ UNCHANGED <<current_sequence_number, blob_files, accepted,
                               returned_err, fails>>
           ELSE AppendEntry(c, t, cl, tl) /\ UNCHANGED call
        /\ UNCHANGED <<verification, collectors, new_sst_files, idle_collectors, task_collector,
                       full_collectors, sst, fin, reduce, result,
                       initial_sequence_number, builder_calls, recorded, locked>>

put(c, t, family, key, len) ==
    CallStart(c, t, [op |-> "put", family |-> family, key |-> key, len |-> len,
                     id |-> <<t, ops_done[t] + 1>>])

delete(c, t, family, key) ==
    CallStart(c, t, [op |-> "delete", family |-> family, key |-> key, len |-> 0,
                     id |-> <<t, ops_done[t] + 1>>])

\* put and delete after a flush that returned Ok.
PutAppend(c, t) ==
    /\ pc[Caller(t)] = "append"
    /\ AppendEntry(c, t, call[t], thread_locals)
    /\ call' = [call EXCEPT ![t] = <<>>]
    /\ UNCHANGED <<verification, collectors, new_sst_files, idle_collectors,
                   idle_thread_local_collectors, task_collector,
                   full_collectors, sst, fin, reduce, result,
                   initial_sequence_number, builder_calls, recorded, ops_done,
                   locked, allocations, lock_order, life>>

\* ------------------------------------------- flush_thread_local_collector
\* The family whose collector process p flushes, and the collector it drains.
FlushFamily(p) == IF IsTask(p) THEN p[2] ELSE call[p[1]].family
FlushSource(p) ==
    IF IsTask(p) THEN task_collector[p]
    ELSE thread_locals[p[1]].collectors[call[p[1]].family][1]

\* self.collectors[family]
SharedSlotFirst(family) == 1
SharedSlot(family) == family

\* The loop under the shared collector's lock: add_entry, and when the shared
\* collector is full replace it by an idle (or new) one.
RECURSIVE DrainInto(_, _, _, _)
DrainInto(entries, global_collector, idle, full) ==
    IF entries = <<>>
    THEN [global_collector |-> global_collector, idle |-> idle, full |-> full]
    ELSE LET g == Append(global_collector, Head(entries))
         IN  IF is_full(g, 0)
             THEN DrainInto(Tail(entries), PopOr(idle, CollectorNew), PopRest(idle),
                            Append(full, g))
             ELSE DrainInto(Tail(entries), g, idle, full)

FlushReturnSwallowed(p, r, tc) ==
    /\ pc' = [pc EXCEPT ![p] = IF IsTask(p) THEN "done" ELSE "append"]
    /\ idle_thread_local_collectors' =
         IF IsTask(p) THEN Append(idle_thread_local_collectors, tc)
         ELSE idle_thread_local_collectors
    /\ fin' = IF IsTask(p) /\ r # <<>> THEN [fin EXCEPT !.shared_error = r] ELSE fin
    /\ recorded' = IF IsTask(p) /\ r # <<>> THEN Append(recorded, r[1]) ELSE recorded
    /\ UNCHANGED <<returned_err, call>>

\* What the spawned closure of finish does after the flush returned:
\* record the error, push the collector to idle_thread_local_collectors.
\* What put/delete do: return the error, or go on to append.
\* r is <<>> for Ok(()) and <<e>> for Err(e); tc is the task's collector.
FlushReturn(p, r, tc) ==
    /\ pc' = [pc EXCEPT ![p] = IF IsTask(p) THEN "done"
                                ELSE IF r = <<>> THEN "append" ELSE "idle"]
    /\ idle_thread_local_collectors' =
         IF IsTask(p) THEN Append(idle_thread_local_collectors, tc)
         ELSE idle_thread_local_collectors
    /\ fin' = IF IsTask(p) /\ r # <<>> THEN [fin EXCEPT !.shared_error = r] ELSE fin
    /\ recorded' = IF IsTask(p) /\ r # <<>> THEN Append(recorded, r[1]) ELSE recorded
    /\ returned_err' = (returned_err \/ (~IsTask(p) /\ r # <<>>))
    /\ call' = IF ~IsTask(p) /\ r # <<>> THEN [call EXCEPT ![p[1]] = <<>>] ELSE call

\* The locks the closure spawned by finish takes after the flush returned r:
\* shared_error on an error, then idle_thread_local_collectors.
ReturnLocks(p, r, held) ==
    IF IsTask(p)
    THEN (IF r # <<>> THEN {Acquire(held, SharedErrorMutex)} ELSE {})
         \cup {Acquire(held, IdleThreadLocalMutex)}
    ELSE {}

\* Line 124: self.collectors[family].lock() blocks while another process
\* holds the guard.
FlushLock(p) ==
    /\ pc[p] = "flush"
    /\ CanLock(locked, SharedSlot(FlushFamily(p)))
    /\ locked' = lock(locked, SharedSlot(FlushFamily(p)), p)
    /\ lock_order' =
         lock_order \cup {Acquire(Held(p), CollectorsMutex(SharedSlot(FlushFamily(p))))}
    /\ pc' = [pc EXCEPT ![p] = "drain"]
    /\ UNCHANGED <<verification, current_sequence_number, thread_locals, collectors,
                   new_sst_files, idle_collectors, idle_thread_local_collectors,
                   call, task_collector, full_collectors, sst, fin, reduce,
                   result, initial_sequence_number, accepted, builder_calls,
                   blob_files, recorded, returned_err, ops_done, fails,
                   allocations, life>>

\* Lines 125-137: under the guard, drain the thread-local collector into the
\* shared one, swapping out every collector that becomes full; the guard is
\* dropped at the end of the block.
FlushDrain(p) ==
    /\ pc[p] = "drain"
    /\ LET family == FlushFamily(p)
           r == DrainInto(FlushSource(p), collectors[SharedSlot(family)],
                          idle_collectors, <<>>)
           popped == Len(r.full)
       IN  /\ collectors' = [collectors EXCEPT ![SharedSlot(family)] = r.global_collector]
           /\ idle_collectors' = r.idle
           /\ locked' = unlock(locked, SharedSlot(family))
           /\ allocations' =
                IF popped > Len(idle_collectors)
                THEN allocations + (popped - Len(idle_collectors)) ELSE allocations
           /\ lock_order' =
                lock_order
                \cup (IF r.full # <<>> THEN {Acquire(Held(p), IdleCollectorsMutex)} ELSE {})
                \cup (IF r.full = <<>>
                      THEN ReturnLocks(p, <<>>, {g \in Held(p) : locked'[g[2]] = <<p>>})
                      ELSE {})
           /\ full_collectors' = [full_collectors EXCEPT ![p] = r.full]
           /\ IF IsTask(p)
              THEN /\ task_collector' = [task_collector EXCEPT ![p] = CollectorNew]
                   /\ UNCHANGED thread_locals
              ELSE /\ thread_locals' =
                        [thread_locals EXCEPT ![p[1]].collectors[family] = <<CollectorNew>>]
                   /\ UNCHANGED task_collector
           /\ IF r.full = <<>>
              THEN FlushReturn(p, <<>>, CollectorNew)
              ELSE /\ pc' = [pc EXCEPT ![p] = "write"]
                   /\ UNCHANGED <<idle_thread_local_collectors, fin, recorded,
                                  returned_err, call>>
    /\ UNCHANGED <<verification, current_sequence_number, new_sst_files, sst, reduce, result,
                   initial_sequence_number, accepted, builder_calls, blob_files,
                   ops_done, fails, life>>

\* The entries create_sst_file is given: global_collector.sorted()
SstInputUnsorted(collector) == collector
SstInput(collector) == sorted(collector)

\* Line 140: create_sst_file for the next swapped-out collector; on an error
\* the flush returns it and drops the collectors still queued.
FlushWrite(c, p) ==
    /\ pc[p] = "write"
    /\ \E ok \in Outcomes(c) :
        LET family == FlushFamily(p)
            seq == fetch_add(current_sequence_number)
            entries == SstInput(Head(full_collectors[p]))
        IN  /\ current_sequence_number' = seq
            /\ builder_calls' =
                 Append(builder_calls,
                        [seq |-> seq, family |-> family, entries |-> entries,
                         ok |-> ok, by |-> IF IsTask(p) THEN "task" ELSE "call",
                         appended |-> Head(full_collectors[p])])
            /\ fails' = IF ok THEN fails ELSE fails + 1
            /\ lock_order' =
                 IF ok THEN lock_order
                 ELSE lock_order \cup ReturnLocks(p, <<Err("sst", seq)>>, Held(p))
            /\ IF ok
               THEN /\ sst' = [sst EXCEPT ![p] = <<SstFile(seq, family, entries)>>]
                    /\ pc' = [pc EXCEPT ![p] = "push"]
                    /\ UNCHANGED <<full_collectors, idle_thread_local_collectors, fin,
                                   recorded, returned_err, call>>
               ELSE /\ full_collectors' = [full_collectors EXCEPT ![p] = <<>>]
                    /\ FlushReturn(p, <<Err("sst", seq)>>,
                                   IF IsTask(p) THEN task_collector[p] ELSE CollectorNew)
                    /\ UNCHANGED sst
    /\ UNCHANGED <<verification, thread_locals, collectors, new_sst_files, idle_collectors,
                   task_collector, reduce, result, initial_sequence_number,
                   accepted, blob_files, ops_done, locked, allocations, life>>

\* Collector::clear
ClearForgotten(collector) == collector
clear(collector) == CollectorNew

\* Lines 142-143: two statements, each with a guard of its own that is
\* dropped at the end of the statement.
PushLocksNested(held) ==
    {Acquire(held, NewSstFilesMutex),
     Acquire(held \cup {NewSstFilesMutex}, IdleCollectorsMutex)}
PushLocks(held) ==
    {Acquire(held, NewSstFilesMutex), Acquire(held, IdleCollectorsMutex)}

\* Lines 141-143: clear the written collector, push the file to
\* self.new_sst_files and the collector to idle_collectors.
FlushPush(p) ==
    /\ pc[p] = "push"
    /\ lock_order' =
         lock_order \cup PushLocks(Held(p))
         \cup (IF Tail(full_collectors[p]) = <<>>
               THEN ReturnLocks(p, <<>>, Held(p)) ELSE {})
    /\ new_sst_files' = Append(new_sst_files, sst[p][1])
    /\ idle_collectors' = Append(idle_collectors, clear(Head(full_collectors[p])))
    /\ full_collectors' = [full_collectors EXCEPT ![p] = Tail(@)]
    /\ sst' = [sst EXCEPT ![p] = <<>>]
    /\ IF Tail(full_collectors[p]) = <<>>
       THEN FlushReturn(p, <<>>, IF IsTask(p) THEN task_collector[p] ELSE CollectorNew)
       ELSE /\ pc' = [pc EXCEPT ![p] = "write"]
            /\ UNCHANGED <<idle_thread_local_collectors, fin, recorded,
                           returned_err, call>>
    /\ UNCHANGED <<verification, current_sequence_number, thread_locals, collectors,
                   task_collector, reduce, result, initial_sequence_number,
                   accepted, builder_calls, blob_files, ops_done, fails,
                   locked, allocations, life>>

\* ------------------------------------------------------------------ finish
\* new_blob_files.append(&mut state.new_blob_files) over the thread-local
\* cells, here in the order of the thread numbers.
RECURSIVE HarvestBlobs(_, _)
HarvestBlobs(t, n) ==
    IF t > n THEN <<>>
    ELSE (IF t \in Threads THEN thread_locals[t].new_blob_files ELSE <<>>)
         \o HarvestBlobs(t + 1, n)

MaxThread == CHOOSE t \in Threads : \A u \in Threads : u <= t

\* Lines 184-187: a taken collector is queued for a task when it is not empty.
Harvested(p) ==
    LET slot == thread_locals[p[1]].collectors[p[2]]
    IN  slot # <<>> /\ ~is_empty(slot[1])

\* Lines 173-203: finish has the batch to itself (&mut self): it takes
\* self.new_sst_files, harvests every thread-local state and spawns one task
\* per non-empty thread-local collector.
FinishBegin(c) ==
    /\ Usable(c)
    /\ life.finishes + life.resets < c.events
    /\ \A t \in Threads : pc[Caller(t)] = "idle"
    /\ life' = [life EXCEPT !.finishes = @ + 1, !.proper = @ /\ Active]
    /\ result' = NoResult
    /\ fin' = [pc |-> "scope", new_sst_files |-> new_sst_files,
               new_blob_files |-> HarvestBlobs(1, MaxThread), shared_error |-> <<>>]
    /\ new_sst_files' = <<>>
    /\ thread_locals' =
         [t \in Threads |->
            [collectors |-> [f \in Families |-> <<>>], new_blob_files |-> <<>>]]
    /\ task_collector' =
         [p \in DOMAIN task_collector |->
            IF Harvested(p) THEN thread_locals[p[1]].collectors[p[2]][1]
            ELSE CollectorNew]
    /\ pc' = [p \in Procs |->
                IF IsTask(p) /\ Harvested(p) THEN "flush" ELSE pc[p]]
    /\ UNCHANGED <<verification, current_sequence_number, collectors, idle_collectors,
                   idle_thread_local_collectors, call, full_collectors, sst,
                   reduce, initial_sequence_number, accepted,
                   builder_calls, blob_files, recorded, returned_err, ops_done,
                   fails, locked, allocations, lock_order>>

\* The scope of line 178 has joined: every spawned task has ended.
ScopeJoined == \A p \in TaskProcs : pc[p] \in {"none", "done"}

NFam == Cardinality(Families)

\* Line 225: an item of the parallel iterator writes an SST when its
\* collector is not empty.
NeedsSstAlways(collector) == TRUE
NeedsSst(collector) == ~is_empty(collector)

\* Lines 209-219: replace self.collectors by collectors popped from
\* idle_collectors (or new ones), family by family; the removed collectors
\* become the items of the parallel iterator.  An empty one needs no work.
FinishReplace ==
    /\ fin.pc = "scope"
    /\ ScopeJoined
    /\ LET n == Len(idle_collectors)
       IN  /\ collectors' =
                [f \in Families |->
                   IF n - f + 1 >= 1 THEN idle_collectors[n - f + 1] ELSE CollectorNew]
           /\ idle_collectors' =
                IF n > NFam THEN SubSeq(idle_collectors, 1, n - NFam) ELSE <<>>
    /\ reduce' =
         [f \in Families |->
            [st |-> IF NeedsSst(collectors[f]) THEN "pending" ELSE "done",
             collector |-> collectors[f], out |-> <<>>]]
    /\ fin' = [fin EXCEPT !.pc = "reduce"]
    /\ pc' = [p \in Procs |-> IF IsTask(p) THEN "none" ELSE pc[p]]
    /\ allocations' =
         IF NFam > Len(idle_collectors)
         THEN allocations + (NFam - Len(idle_collectors)) ELSE allocations
    /\ lock_order' = lock_order \cup {Acquire({}, IdleCollectorsMutex)}
    /\ UNCHANGED <<verification, current_sequence_number, thread_locals, new_sst_files,
                   idle_thread_local_collectors, call, task_collector,
                   full_collectors, sst, result, initial_sequence_number,
                   accepted, builder_calls, blob_files, recorded, returned_err,
                   ops_done, fails, locked, life>>

\* Line 226: create_sst_file for a non-empty shared collector.
ReduceWrite(c, f) ==
    /\ fin.pc = "reduce"
    /\ reduce[f].st = "pending"
    /\ \E ok \in Outcomes(c) :
        LET seq == fetch_add(current_sequence_number)
            entries == SstInput(reduce[f].collector)
        IN  /\ current_sequence_number' = seq
            /\ builder_calls' =
                 Append(builder_calls,
                        [seq |-> seq, family |-> f, entries |-> entries,
                         ok |-> ok, by |-> "finish",
                         appended |-> reduce[f].collector])
            /\ fails' = IF ok THEN fails ELSE fails + 1
            /\ reduce' =
                 [reduce EXCEPT ![f] =
                    IF ok
                    THEN [st |-> "written", collector |-> @.collector,
                          out |-> <<SstFile(seq, f, entries)>>]
                    ELSE [st |-> "failed", collector |-> CollectorNew,
                          out |-> <<Err("sst", seq)>>]]
    /\ UNCHANGED <<verification, thread_locals, collectors, new_sst_files, idle_collectors,
                   idle_thread_local_collectors, pc, call, task_collector,
                   full_collectors, sst, fin, result, initial_sequence_number,
                   accepted, blob_files, recorded, returned_err, ops_done,
                   locked, allocations, lock_order, life>>

\* Lines 227-229: clear the collector, push it to idle_collectors and the
\* file to the local new_sst_files.
ReducePush(f) ==
    /\ fin.pc = "reduce"
    /\ reduce[f].st = "written"
    /\ idle_collectors' = Append(idle_collectors, clear(reduce[f].collector))
    /\ fin' = [fin EXCEPT !.new_sst_files = Append(@, reduce[f].out[1])]
    /\ reduce' = [reduce EXCEPT ![f] =
                    [st |-> "done", collector |-> CollectorNew, out |-> <<>>]]
    /\ lock_order' =
         lock_order \cup {Acquire({}, IdleCollectorsMutex),
                          Acquire({}, SharedNewSstFilesMutex)}
    /\ UNCHANGED <<verification, current_sequence_number, thread_locals, collectors,
                   new_sst_files, idle_thread_local_collectors, pc, call,
                   task_collector, full_collectors, sst, result,
                   initial_sequence_number, accepted, builder_calls, blob_files,
                   recorded, returned_err, ops_done, fails, locked, allocations,
                   life>>

\* Vec::sort_by_key(|(seq, _)| *seq): a stable sort by sequence number.
RECURSIVE InsertBySeq(_, _)
InsertBySeq(s, x) ==
    IF s = <<>> THEN <<x>>
    ELSE IF Head(s).seq <= x.seq THEN <<Head(s)>> \o InsertBySeq(Tail(s), x)
    ELSE <<x>> \o s

RECURSIVE SortBySeqFrom(_, _)
SortBySeqFrom(done, rest) ==
    IF rest = <<>> THEN done
    ELSE SortBySeqFrom(InsertBySeq(done, Head(rest)), Tail(rest))

sort_by_key(files) == SortBySeqFrom(<<>>, files)

\* The parallel iterator has joined: every item has ended, or, once one has
\* failed, was never started (try_for_each stops handing out items after a
\* failure and drops them with their collectors).
ReduceFailed == {f \in Families : reduce[f].st = "failed"}
ReduceJoined ==
    \A f \in Families :
        \/ reduce[f].st \in {"done", "failed"}
        \/ reduce[f].st = "pending" /\ ReduceFailed # {}

\* Lines 232-241: the `?` on try_for_each returns an error of the parallel
\* flush; then shared_error.into_inner()? returns the recorded error; else
\* the counter is read, the files are sorted and the result is Ok.
FinishReturnStaleNumber(e) ==
    IF e # <<>> THEN ErrResult(e[1])
    ELSE IF fin.shared_error # <<>> THEN ErrResult(fin.shared_error[1])
    ELSE OkResult(initial_sequence_number + Len(blob_files),
                  sort_by_key(fin.new_sst_files), fin.new_blob_files)
FinishReturnIgnoringSlot(e) ==
    IF e # <<>> THEN ErrResult(e[1])
    ELSE OkResult(current_sequence_number, sort_by_key(fin.new_sst_files),
                  fin.new_blob_files)
FinishReturn(e) ==
    IF e # <<>> THEN ErrResult(e[1])
    ELSE IF fin.shared_error # <<>> THEN ErrResult(fin.shared_error[1])
    ELSE OkResult(current_sequence_number, sort_by_key(fin.new_sst_files),
                  fin.new_blob_files)

FinishEnd ==
    /\ fin.pc = "reduce"
    /\ ReduceJoined
    /\ \E e \in (IF ReduceFailed = {} THEN {<<>>}
                  ELSE {reduce[f].out : f \in ReduceFailed}) :
          result' = FinishReturn(e)
    /\ fin' = [pc |-> "finished", new_sst_files |-> <<>>, new_blob_files |-> <<>>,
               shared_error |-> <<>>]
    /\ reduce' = [f \in Families |->
                    [st |-> "none", collector |-> CollectorNew, out |-> <<>>]]
    /\ UNCHANGED <<verification, current_sequence_number, thread_locals, collectors,
                   new_sst_files, idle_collectors, idle_thread_local_collectors,
                   pc, call, task_collector, full_collectors, sst,
                   initial_sequence_number, accepted, builder_calls, blob_files,
                   recorded, returned_err, ops_done, fails, locked, allocations,
                   lock_order, life>>

\* AtomicU32::store(current, SeqCst)
StoreIgnored(cur, current) == cur
store(cur, current) == current

\* WriteBatch::reset needs &mut self, so no put, delete or finish is running;
\* it stores the counter and touches nothing else.  The history of the batch
\* starts again.
reset(c, current) ==
    /\ Usable(c)
    /\ life.finishes + life.resets < c.events
    /\ \A t \in Threads : pc[Caller(t)] = "idle"
    /\ current_sequence_number' = store(current_sequence_number, current)
    /\ initial_sequence_number' = current
    /\ fin' = [fin EXCEPT !.pc = "active"]
    /\ life' = [life EXCEPT !.resets = @ + 1, !.proper = @ /\ (fin.pc = "finished"),
                            !.previous = current_sequence_number]
    /\ result' = NoResult
    /\ accepted' = {}
    /\ builder_calls' = <<>>
    /\ blob_files' = <<>>
    /\ recorded' = <<>>
    /\ returned_err' = FALSE
    /\ UNCHANGED <<verification, thread_locals, collectors, new_sst_files, idle_collectors,
                   idle_thread_local_collectors, pc, call, task_collector,
                   full_collectors, sst, reduce, ops_done, fails, locked,
                   allocations, lock_order>>

\* ---------------------------------------------------------- specifications
Next(c) ==
    \/ \E t \in c.threads, f \in c.families, k \in c.keys, l \in c.lens :
          put(c, t, f, k, l)
    \/ \E t \in c.threads, f \in c.families, k \in c.keys : delete(c, t, f, k)
    \/ \E t \in c.threads : PutAppend(c, t)
    \/ \E p \in Procs : FlushLock(p)
    \/ \E p \in Procs : FlushDrain(p)
    \/ \E p \in Procs : FlushWrite(c, p)
    \/ \E p \in Procs : FlushPush(p)
    \/ FinishBegin(c)
    \/ FinishReplace
    \/ \E f \in c.families : ReduceWrite(c, f)
    \/ \E f \in c.families : ReducePush(f)
    \/ FinishEnd

Spec == Init(CfgMain) /\ [][Next(CfgMain)]_vars

SpecRace == Init(CfgRace) /\ [][Next(CfgRace)]_vars

\* A batch that is reused after finish.
NextCycle(c) ==
    \/ Next(c)
    \/ \E current \in c.resets : reset(c, current)

SpecCycle == Init(CfgCycle) /\ [][NextCycle(CfgCycle)]_vars

SpecPool == Init(CfgPool) /\ [][NextCycle(CfgPool)]_vars

\* ------------------------------------------------------ verify_sst_content
\* The value of a CollectorEntry and the LookupResult of StaticSortedFile for
\* its key; a value is modelled by a number, a blob by its sequence number.
EntryValues ==
    {[class |-> c, value |-> v] : c \in {"Small", "Medium", "Blob"}, v \in 1..VerifyValues}
    \cup {[class |-> "Tombstone", value |-> 0]}

LookupResults ==
    {[result |-> r, value |-> v] : r \in {"Small", "Blob"}, v \in 1..VerifyValues}
    \cup {[result |-> r, value |-> 0] :
             r \in {"Deleted", "QuickFilterMiss", "RangeMiss", "KeyMiss"}}

\* Lines 316-331: the match on the lookup result of one entry.  TRUE when the
\* arm falls through to the next entry, FALSE when it panics.
verify_entry(value, found) ==
    CASE found.result = "Deleted" -> TRUE
      [] found.result = "Small" ->
            value.class \in {"Small", "Medium"} /\ found.value = value.value
      [] found.result = "Blob" -> TRUE
      [] OTHER -> FALSE

\* create_sst_file has written a file with up to MaxVerify entries; what the
\* file says for each key is up to the SST builder.
InitVerify ==
    /\ InitBatch(CfgMain)
    /\ verification \in
         {[entries |-> es, at |-> 1, outcome |-> "running"] :
            es \in UNION {[1..n -> [value : EntryValues, lookup : LookupResults]] :
                             n \in 1..MaxVerify}}

\* Lines 310-332: one round of `for entry in entries`.
VerifyEntry ==
    /\ verification.outcome = "running"
    /\ verification.at <= Len(verification.entries)
    /\ LET e == verification.entries[verification.at]
       IN  verification' =
             IF verify_entry(e.value, e.lookup)
             THEN [verification EXCEPT !.at = @ + 1]
             ELSE [verification EXCEPT !.outcome = "panic"]
    /\ UNCHANGED batch_vars

\* Line 335: the loop is over, create_sst_file returns Ok.
VerifyReturn ==
    /\ verification.outcome = "running"
    /\ verification.at > Len(verification.entries)
    /\ verification' = [verification EXCEPT !.outcome = "ok"]
    /\ UNCHANGED batch_vars

NextVerify == VerifyEntry \/ VerifyReturn

SpecVerify == InitVerify /\ [][NextVerify]_vars

\* Scheduling: a thread inside put or delete, a task of the scope and an item
\* of the parallel iterator keep running, and a thread waiting for a mutex
\* gets it once it stays free.  When put, delete and finish are called is up
\* to the caller.
Fairness(c) ==
    /\ \A p \in c.threads \X ({0} \cup c.families) :
          /\ WF_vars(FlushLock(p))
          /\ WF_vars(FlushDrain(p))
          /\ WF_vars(FlushWrite(c, p))
          /\ WF_vars(FlushPush(p))
    /\ \A t \in c.threads : WF_vars(PutAppend(c, t))
    /\ \A f \in c.families : WF_vars(ReduceWrite(c, f)) /\ WF_vars(ReducePush(f))
    /\ WF_vars(FinishReplace)
    /\ WF_vars(FinishEnd)

SpecLive == Init(CfgRace) /\ [][Next(CfgRace)]_vars /\ Fairness(CfgRace)

\* -------------------------------------------------------------- properties
Returned == result # NoResult
ReturnedOk == result # NoResult /\ result[1].ok
ReturnedErr == result # NoResult /\ ~result[1].ok

Range(s) == {s[i] : i \in DOMAIN s}

\* How often entry e occurs in the SST files of a list.
RECURSIVE Occurrences(_, _)
Occurrences(e, files) ==
    IF files = <<>> THEN 0
    ELSE Cardinality({i \in DOMAIN Head(files).entries : Head(files).entries[i] = e})
         + Occurrences(e, Tail(files))

EntriesIn(files) == UNION {Range(files[i].entries) : i \in DOMAIN files}

OkCalls == {i \in DOMAIN builder_calls : builder_calls[i].ok}
CallFile(i) ==
    SstFile(builder_calls[i].seq, builder_calls[i].family, builder_calls[i].entries)

\* C1: Conservation.  When no put or delete returned an error and finish
\* returns Ok, the entries of the SST files in the result are, as a multiset,
\* the mutations accepted in the batch: each accepted entry occurs in exactly
\* one returned SST, once, and nothing else occurs.
C1_Conservation ==
    (ReturnedOk /\ ~returned_err) =>
        /\ EntriesIn(result[1].new_sst_files) = accepted
        /\ \A e \in accepted : Occurrences(e, result[1].new_sst_files) = 1

\* All the sequence numbers stamped on artifacts of the batch, in the order of
\* the logs.
Stamps ==
    [i \in DOMAIN builder_calls |-> builder_calls[i].seq]
    \o [i \in DOMAIN blob_files |-> blob_files[i].seq]

\* C2: Sequence-number uniqueness.  No two artifacts (blob or SST) of the batch
\* carry the same sequence number; each is greater than the initial sequence
\* number and at most the counter, hence at most the sequence_number that
\* finish returns.
C2_SequenceNumbersUnique ==
    /\ \A i, j \in DOMAIN Stamps : i # j => Stamps[i] # Stamps[j]
    /\ \A i \in DOMAIN Stamps :
          /\ Stamps[i] > initial_sequence_number
          /\ Stamps[i] <= current_sequence_number
          /\ ReturnedOk => Stamps[i] <= result[1].sequence_number

\* C2 witness: finish returned Ok after a blob, an SST written by a put's
\* flush and an SST written by finish were stamped.
C2_Witness ==
    /\ ReturnedOk
    /\ \E i \in DOMAIN blob_files : blob_files[i].ok
    /\ \E i \in OkCalls : builder_calls[i].by = "call"
    /\ \E i \in OkCalls : builder_calls[i].by = "finish"

\* Index of entry e in sequence s (0 when absent).
PosIn(e, s) == IF \E i \in DOMAIN s : s[i] = e
               THEN CHOOSE i \in DOMAIN s : s[i] = e ELSE 0

\* C3: Last write last.  For two mutations of one key in one family made by
\* one thread, the later one is after the earlier one in the same SST, or in
\* an SST with a greater sequence number.
C3_LastWriteLast ==
    \A i, j \in OkCalls :
        \A x \in DOMAIN builder_calls[i].entries, y \in DOMAIN builder_calls[j].entries :
            LET a == builder_calls[i].entries[x]
                b == builder_calls[j].entries[y]
            IN  (a.id[1] = b.id[1] /\ a.fam = b.fam /\ a.key = b.key
                   /\ a.id[2] < b.id[2])
                => IF i = j THEN x < y
                   ELSE builder_calls[i].seq < builder_calls[j].seq

\* C4: When finish returns Ok, new_sst_files is strictly ascending by sequence
\* number and holds every SST created in the batch.
C4_ResultHasEverySst ==
    ReturnedOk =>
        LET files == result[1].new_sst_files
        IN  /\ \A i, j \in DOMAIN files : i < j => files[i].seq < files[j].seq
            /\ \A i \in OkCalls : CallFile(i) \in Range(files)

\* Every entry of collector was inserted under family f.
AllOfFamily(collector, f) == \A i \in DOMAIN collector : collector[i].fam = f

\* C5: Family isolation.  Every entry handed to the SST builder with family F
\* was inserted by a call with family F, and so is every entry held for
\* family F: in a thread's slot F, in shared collector F, in a task or a
\* swapped-out collector of a flush of family F, in item F of finish.
C5_FamilyIsolation ==
    /\ \A i \in DOMAIN builder_calls :
          AllOfFamily(builder_calls[i].entries, builder_calls[i].family)
    /\ \A t \in Threads, f \in Families :
          /\ thread_locals[t].collectors[f] # <<>>
               => AllOfFamily(thread_locals[t].collectors[f][1], f)
          /\ AllOfFamily(task_collector[<<t, f>>], f)
          /\ \A i \in DOMAIN full_collectors[<<t, f>>] :
               AllOfFamily(full_collectors[<<t, f>>][i], f)
    /\ \A t \in Threads : \A i \in DOMAIN full_collectors[Caller(t)] :
          AllOfFamily(full_collectors[Caller(t)][i], call[t].family)
    /\ \A f \in Families :
          /\ AllOfFamily(collectors[f], f)
          /\ AllOfFamily(reduce[f].collector, f)
    /\ \A i \in DOMAIN new_sst_files :
          AllOfFamily(new_sst_files[i].entries, new_sst_files[i].family)
    /\ ReturnedOk =>
          \A i \in DOMAIN result[1].new_sst_files :
              AllOfFamily(result[1].new_sst_files[i].entries,
                          result[1].new_sst_files[i].family)

\* C5 witness: SSTs of two families were written, one of them by a flush of a
\* thread-local collector, and finish returned Ok.
C5_Witness ==
    /\ ReturnedOk
    /\ \E i, j \in OkCalls :
          /\ builder_calls[i].family # builder_calls[j].family
          /\ builder_calls[i].by # "finish"
          /\ builder_calls[j].by = "finish"


OkBlobs == {i \in DOMAIN blob_files : blob_files[i].ok}

\* C6: Blob divert, for the puts that returned Ok.  A value of length up to
\* and including MAX_MEDIUM_VALUE_SIZE is appended inline and no blob is
\* stamped for it: every sequence number allocated belongs to an SST or to
\* the blob of an oversized put.  An oversized put stamps exactly one blob
\* and appends a Blob entry with that sequence number.  When finish returns
\* Ok, new_blob_files holds exactly one file per such put, whatever thread
\* made it.
C6_BlobDivert ==
    /\ \A i \in DOMAIN blob_files : blob_files[i].len > MAX_MEDIUM_VALUE_SIZE
    /\ \A e \in accepted : e.kind = "Inline" => e.val <= MAX_MEDIUM_VALUE_SIZE
    /\ \A e \in accepted :
          e.kind = "Blob" =>
            /\ Cardinality({i \in DOMAIN blob_files : blob_files[i].id = e.id}) = 1
            /\ \E i \in OkBlobs : blob_files[i].id = e.id /\ blob_files[i].seq = e.val
    /\ \A i \in OkBlobs :
          \E e \in accepted :
              e.kind = "Blob" /\ e.id = blob_files[i].id /\ e.val = blob_files[i].seq
    /\ current_sequence_number =
          initial_sequence_number + Len(builder_calls) + Len(blob_files)
    /\ Active =>
          \A t \in Threads :
              Range(thread_locals[t].new_blob_files)
                = {blob_files[i].seq : i \in {j \in OkBlobs : blob_files[j].id[1] = t}}
    /\ ReturnedOk =>
          LET files == result[1].new_blob_files
          IN  /\ Range(files) = {blob_files[i].seq : i \in OkBlobs}
              /\ Len(files) = Cardinality(OkBlobs)

\* C6 witness: finish returned Ok with the blobs of two threads, after a put
\* of a value of exactly MAX_MEDIUM_VALUE_SIZE bytes was appended inline.
C6_Witness ==
    /\ ReturnedOk
    /\ \E i, j \in DOMAIN result[1].new_blob_files :
          \E a, b \in OkBlobs :
              /\ blob_files[a].seq = result[1].new_blob_files[i]
              /\ blob_files[b].seq = result[1].new_blob_files[j]
              /\ blob_files[a].id[1] # blob_files[b].id[1]
    /\ \E e \in accepted : e.kind = "Inline" /\ e.val = MAX_MEDIUM_VALUE_SIZE

\* C7: Sorted input.  At every call of the SST builder the entries are
\* non-decreasing by key, are the entries of the collector, and entries with
\* equal keys are in the order in which they were appended to the collector.
C7_SortedInput ==
    \A i \in DOMAIN builder_calls :
        LET es == builder_calls[i].entries
            ap == builder_calls[i].appended
        IN  /\ Len(es) = Len(ap)
            /\ Range(es) = Range(ap)
            /\ \A x, y \in DOMAIN es :
                  x < y =>
                    /\ es[x].key <= es[y].key
                    /\ es[x].key = es[y].key => PosIn(es[x], ap) < PosIn(es[y], ap)

\* C7 witness: the builder was given three or more entries, two of them with
\* equal keys, that the collector held in another order.
C7_Witness ==
    \E i \in OkCalls :
        LET es == builder_calls[i].entries
        IN  /\ Len(es) >= 3
            /\ es # builder_calls[i].appended
            /\ \E x, y \in DOMAIN es : x < y /\ es[x].key = es[y].key

\* C8: First error wins.  The shared error slot keeps the first error stored
\* into it, and when more than one flush task of finish failed, finish returns
\* the error recorded first.
C8_FirstErrorWins ==
    /\ fin.shared_error # <<>> => fin.shared_error[1] = recorded[1]
    /\ (ReturnedErr /\ Len(recorded) >= 2) => result[1].err[1] = recorded[1]

\* finish has joined: no task and no item of the parallel iterator is left.
AllJoined ==
    /\ \A p \in TaskProcs :
          pc[p] = "none" /\ full_collectors[p] = <<>> /\ sst[p] = <<>>
    /\ \A f \in Families : reduce[f].st = "none"

\* The errors of the SST writes that failed in the parallel flush of the
\* shared collectors.
ReduceErrors ==
    {Err("sst", builder_calls[i].seq) :
        i \in {j \in DOMAIN builder_calls :
                  ~builder_calls[j].ok /\ builder_calls[j].by = "finish"}}

C10_ErrorIsFatal == (Returned /\ returned_err) => ReturnedErr

\* C10 amended: a blob or SST write error is returned by the put or delete
\* whose write failed, and the batch does not keep it: finish returns an error
\* exactly when a write made during finish failed.
C10_ErrorIsReturnedOnce ==
    /\ returned_err <=>
          \/ \E i \in DOMAIN blob_files : ~blob_files[i].ok
          \/ \E i \in DOMAIN builder_calls :
                ~builder_calls[i].ok /\ builder_calls[i].by = "call"
    /\ Returned =>
          (ReturnedErr <=>
             \E i \in DOMAIN builder_calls :
                ~builder_calls[i].ok /\ builder_calls[i].by \in {"task", "finish"})

\* C10 witness: a put or delete returned an error and finish returned Ok.
C10_Witness == ReturnedOk /\ returned_err

\* C11: Batch lifecycle.  The batch takes put, delete and finish only while it
\* is Active and reset only once finish has returned (Finished): every call
\* it has accepted came in the order new, mutations, finish, reset, mutations,
\* finish, ...
C11_Lifecycle == life.proper

\* C12: after finish and reset(s) the sequence numbers start again at s + 1,
\* whatever numbers earlier batches used: the first SST or blob created after
\* the reset carries s + 1 and every later one a greater number.
C12_ResetRestartsNumbers ==
    (life.resets > 0 /\ Stamps # <<>>) =>
          /\ \/ builder_calls # <<>> /\ builder_calls[1].seq = initial_sequence_number + 1
             \/ blob_files # <<>> /\ blob_files[1].seq = initial_sequence_number + 1
          /\ \A i \in DOMAIN Stamps : Stamps[i] >= initial_sequence_number + 1
          /\ \A i, j \in DOMAIN Stamps : i # j => Stamps[i] # Stamps[j]

\* C12 witness: after a finish and a reset in turn, an artifact was created
\* under a number that an earlier batch had already used.
C12_Witness ==
    /\ life.proper /\ life.resets > 0
    /\ Stamps # <<>>
    /\ life.previous > initial_sequence_number + 1

\* No mutation was made since the last reset (or since new).
NoMutation ==
    accepted = {} /\ ~returned_err /\ blob_files = <<>> /\ builder_calls = <<>>

\* C13: finish leaves the batch empty.  Once finish has returned, every
\* thread's slots are vacant and its new_blob_files is empty, every shared
\* collector is empty and self.new_sst_files is empty; so, after reset, a
\* finish with no mutation in between returns no SST file and no blob file and
\* leaves the counter where reset put it.
C13_FinishLeavesEmpty ==
    /\ (fin.pc = "finished" /\ life.proper) =>
          /\ \A t \in Threads :
                /\ \A f \in Families : thread_locals[t].collectors[f] = <<>>
                /\ thread_locals[t].new_blob_files = <<>>
          /\ \A f \in Families : is_empty(collectors[f])
          /\ new_sst_files = <<>>
    /\ (life.proper /\ life.resets > 0 /\ ReturnedOk /\ NoMutation) =>
          /\ result[1].new_sst_files = <<>>
          /\ result[1].new_blob_files = <<>>
          /\ result[1].sequence_number = initial_sequence_number

\* C14: every collector in idle_collectors and in
\* idle_thread_local_collectors is empty.
C14_IdleCollectorsEmpty ==
    /\ \A i \in DOMAIN idle_collectors : is_empty(idle_collectors[i])
    /\ \A i \in DOMAIN idle_thread_local_collectors :
          is_empty(idle_thread_local_collectors[i])

\* C14 witness: both pools hold a collector, one of them pushed by a task of
\* finish whose flush returned an error.
C14_Witness ==
    /\ recorded # <<>>
    /\ idle_thread_local_collectors # <<>>
    /\ idle_collectors # <<>>

\* The collectors a batch can have in use at once: one per thread and family,
\* one per family in self.collectors and one more per family while finish
\* consumes the replaced ones, and one swapped-out collector per flush in
\* progress.
PoolBound ==
    Cardinality(Families) * Cardinality(Threads) + 2 * Cardinality(Families)
    + Cardinality(Threads)

\* C15: Pool reuse.  Over batch cycles (mutations, finish, reset) the number
\* of collectors ever constructed stays within a bound that depends on the
\* families and threads only, not on the number of cycles.
C15_PoolReuse == life.proper => allocations <= PoolBound

\* The SST builder calls made by a flush of a thread-local collector (in put,
\* delete or a task of finish), and those made by finish for family f.
FlushCalls == {i \in DOMAIN builder_calls : builder_calls[i].by \in {"call", "task"}}
FinishCalls(f) ==
    {i \in DOMAIN builder_calls :
        builder_calls[i].by = "finish" /\ builder_calls[i].family = f}

\* The accepted entries of family f that no flush of a thread-local collector
\* handed to the builder: what shared collector f holds once every
\* thread-local collector has been flushed.
Pending(f) ==
    {e \in accepted : e.fam = f}
    \ UNION {Range(builder_calls[i].appended) : i \in FlushCalls}

\* C16: Number of SSTs.  A flush of a thread-local collector writes an SST
\* only for a shared collector that became full, never because the
\* thread-local collector was full.  finish writes one SST for each family
\* whose shared collector is not empty once the thread-local collectors are
\* flushed, and none for the other families.  So a batch that never fills a
\* shared collector returns exactly one SST per family that received a
\* mutation.
C16_NumberOfSsts ==
    /\ \A i \in FlushCalls : is_full(builder_calls[i].appended, 0)
    /\ \A p \in Procs : \A i \in DOMAIN full_collectors[p] :
          is_full(full_collectors[p][i], 0)
    /\ \A f \in Families : Cardinality(FinishCalls(f)) <= 1
    /\ ReturnedOk =>
          \A f \in Families :
              Cardinality(FinishCalls(f)) = IF Pending(f) # {} THEN 1 ELSE 0
    /\ (ReturnedOk /\ FlushCalls = {}) =>
          LET files == result[1].new_sst_files
          IN  /\ {files[i].family : i \in DOMAIN files} = {e.fam : e \in accepted}
              /\ \A i, j \in DOMAIN files : i # j => files[i].family # files[j].family

\* C16 witness: a thread-local collector was full and was flushed by a put,
\* no shared collector ever became full, and finish returned one SST for each
\* of two families.
C16_Witness ==
    /\ ReturnedOk /\ FlushCalls = {}
    /\ Len(result[1].new_sst_files) = 2
    /\ \E a, b \in accepted :
          /\ a.id[1] = b.id[1] /\ a.fam = b.fam /\ a.id[2] < b.id[2]
          /\ is_full(<<a>>, THREAD_LOCAL_SIZE_SHIFT)

\* C17: in a batch in which no call returned an error, the sequence numbers
\* of the blobs and SSTs created are exactly initial + 1 .. final, and the
\* sequence_number finish returns is the counter at the end of finish:
\* initial + blobs created + SSTs created.
C17_NumbersAreContiguous ==
    (ReturnedOk /\ ~returned_err) =>
        /\ Range(Stamps) =
              (initial_sequence_number + 1) .. result[1].sequence_number
        /\ result[1].sequence_number = current_sequence_number
        /\ result[1].sequence_number =
              initial_sequence_number + Len(blob_files) + Len(builder_calls)
        /\ \A i \in DOMAIN builder_calls : builder_calls[i].ok
        /\ \A i \in DOMAIN blob_files : blob_files[i].ok

\* C17 witness: finish returned Ok in a batch without errors in which a blob,
\* an SST of a flush and an SST of finish were created.
C17_Witness ==
    /\ ReturnedOk /\ ~returned_err
    /\ blob_files # <<>> /\ FlushCalls # {}
    /\ \E f \in Families : FinishCalls(f) # {}
    /\ result[1].sequence_number >= initial_sequence_number + 3

\* Process p takes a step of flush_thread_local_collector.
FlushStep(p) == pc'[p] # pc[p] /\ fin'.pc = fin.pc

\* C18: Replace-not-drain.  A process holds a shared collector's mutex only
\* while it drains its thread-local collector into the shared one; what it
\* does under the mutex is append and swap: no sequence number is allocated,
\* nothing is handed to the SST builder and no file is pushed, and the mutex
\* is released before the first swapped-out collector is sorted and written.
C18_UnderTheLock ==
    \A p \in Procs :
        (Held(p) # {} /\ FlushStep(p)) =>
            /\ pc[p] = "drain"
            /\ current_sequence_number' = current_sequence_number
            /\ builder_calls' = builder_calls
            /\ blob_files' = blob_files
            /\ new_sst_files' = new_sst_files
            /\ Held(p)' = {}

C18_WrittenOutsideTheLock ==
    /\ \A p \in Procs :
          /\ Held(p) # {} => pc[p] = "drain" /\ full_collectors[p] = <<>> /\ sst[p] = <<>>
          /\ pc[p] \in {"write", "push"} => Held(p) = {}
    /\ fin.pc = "reduce" => \A f \in Families : locked[f] = <<>>

C18_ReplaceNotDrain == []C18_WrittenOutsideTheLock /\ [][C18_UnderTheLock]_vars

\* C18 witness: a swapped-out collector is about to be written by one task
\* while another task holds the mutex of the same family.
C18_Witness ==
    \E p, q \in Procs :
        /\ p # q /\ pc[p] = "write" /\ full_collectors[p] # <<>>
        /\ locked[SharedSlot(FlushFamily(p))] = <<q>>

\* The places that hold entry e: a thread's slot, a shared slot, a task of
\* finish, a swapped-out collector of a flush, an item of the parallel
\* iterator.
Holders(e) ==
    {<<"thread", t, f>> : <<t, f>> \in
        {x \in Threads \X Families :
            /\ thread_locals[x[1]].collectors[x[2]] # <<>>
            /\ e \in Range(thread_locals[x[1]].collectors[x[2]][1])}}
    \cup {<<"shared", f, 0>> : f \in {g \in Families : e \in Range(collectors[g])}}
    \cup {<<"task", p[1], p[2]>> : p \in {q \in DOMAIN task_collector :
                                            e \in Range(task_collector[q])}}
    \cup {<<"full", p, i>> : <<p, i>> \in
            {x \in Procs \X (1..2) :
                x[2] \in DOMAIN full_collectors[x[1]]
                /\ e \in Range(full_collectors[x[1]][x[2]])}}
    \cup {<<"item", f, 0>> : f \in {g \in Families : e \in Range(reduce[g].collector)}}

\* Collector c holds no entry twice.
NoDuplicate(c) == Cardinality(Range(c)) = Len(c)

\* C19, the state part: an entry, and so the collector that holds it, is in
\* one place only; a shared collector is drained into by one process at a
\* time, the holder of its mutex; a swapped-out collector is with one process
\* and is handed to the SST builder once.
C19_OnePlace ==
    /\ \A e \in accepted : Cardinality(Holders(e)) <= 1
    /\ \A f \in Families : NoDuplicate(collectors[f]) /\ NoDuplicate(reduce[f].collector)
    /\ \A p \in Procs : \A i \in DOMAIN full_collectors[p] :
          NoDuplicate(full_collectors[p][i])
    /\ \A p, q \in Procs :
          (p # q /\ pc[p] = "drain" /\ pc[q] = "drain")
          => SharedSlot(FlushFamily(p)) # SharedSlot(FlushFamily(q))
    /\ \A p \in Procs : pc[p] = "drain" => locked[SharedSlot(FlushFamily(p))] = <<p>>
    /\ \A i, j \in DOMAIN builder_calls :
          i # j => Range(builder_calls[i].appended) \cap Range(builder_calls[j].appended) = {}

\* C19, the step part: a thread's collectors are changed only by a step of
\* that thread or by finish taking them; a task's collector only by that task
\* or by finish handing it over; a shared collector only by the process that
\* holds its mutex or by finish replacing it; a swapped-out collector only by
\* the process that swapped it out.
C19_OneAccessor ==
    /\ \A t \in Threads :
          thread_locals'[t] # thread_locals[t]
          => \/ pc'[Caller(t)] # pc[Caller(t)]
             \/ ops_done'[t] # ops_done[t]
             \/ fin'.pc # fin.pc
    /\ \A p \in DOMAIN task_collector :
          task_collector'[p] # task_collector[p] => pc'[p] # pc[p]
    /\ \A f \in Families :
          collectors'[f] # collectors[f]
          => \/ \E p \in Procs : locked[f] = <<p>> /\ FlushStep(p)
             \/ fin'.pc # fin.pc
    /\ \A p \in Procs :
          (full_collectors'[p] # full_collectors[p] \/ sst'[p] # sst[p])
          => FlushStep(p)

C19_Ownership == []C19_OnePlace /\ [][C19_OneAccessor]_vars

\* C19 witness: one task drains into a shared collector under its mutex,
\* another waits for the same mutex, and its thread-local collector holds
\* entries.
C19_Witness ==
    \E p, q \in TaskProcs :
        /\ p # q /\ pc[p] = "drain" /\ pc[q] = "flush"
        /\ FlushFamily(p) = FlushFamily(q)
        /\ task_collector[q] # <<>>

\* The mutexes that are taken for one push or pop.
LeafMutexes ==
    {IdleCollectorsMutex, IdleThreadLocalMutex, NewSstFilesMutex,
     SharedErrorMutex, SharedNewSstFilesMutex}

\* C20, the lock order: a shared collector's mutex is taken with no mutex
\* held; idle_collectors is taken with at most one shared collector's mutex
\* held; new_sst_files and the idle pools are never held while another mutex
\* is taken.
C20_LockOrder ==
    \A a \in lock_order :
        /\ a.held \cap LeafMutexes = {}
        /\ Cardinality(a.held) <= 1
        /\ a.lock \notin LeafMutexes => a.held = {}
        /\ a.lock \in LeafMutexes \ {IdleCollectorsMutex} => a.held = {}

\* C20: Deadlock freedom.  The lock order holds, and under fair scheduling
\* every put and delete returns and every finish returns.
C20_DeadlockFree ==
    /\ []C20_LockOrder
    /\ \A t \in CfgRace.threads :
          (pc[Caller(t)] # "idle") ~> (pc[Caller(t)] = "idle")
    /\ (fin.pc \in {"scope", "reduce"}) ~> (fin.pc = "finished")

\* C20 witness: a task waits for the mutex of a shared collector that another
\* task holds, after idle_collectors was taken under such a mutex.
C20_Witness ==
    /\ \E p, q \in Procs :
          p # q /\ pc[p] = "flush" /\ locked[SharedSlot(FlushFamily(p))] = <<q>>
    /\ \E a \in lock_order : a.lock = IdleCollectorsMutex /\ a.held # {}

\* C21: Blob before SST.  Every Blob entry handed to the SST builder names a
\* blob file that create_blob had already written (it returned Ok before the
\* entry was appended), and the blob's sequence number is smaller than the
\* one of the SST that gets the entry.
C21_BlobBeforeSst ==
    /\ \A i \in DOMAIN builder_calls :
          \A x \in DOMAIN builder_calls[i].entries :
              LET e == builder_calls[i].entries[x]
              IN  e.kind = "Blob" =>
                    /\ \E j \in OkBlobs :
                          blob_files[j].seq = e.val /\ blob_files[j].id = e.id
                    /\ e.val < builder_calls[i].seq
    /\ \A e \in accepted :
          e.kind = "Blob" =>
            /\ \E j \in OkBlobs : blob_files[j].seq = e.val
            /\ e.val <= current_sequence_number

\* C21 witness: an SST holds the Blob entries of two threads, and another
\* artifact was stamped between one of the blobs and the SST.
C21_Witness ==
    \E i \in OkCalls :
        \E x, y \in DOMAIN builder_calls[i].entries :
            LET a == builder_calls[i].entries[x]
                b == builder_calls[i].entries[y]
            IN  /\ a.kind = "Blob" /\ b.kind = "Blob"
                /\ a.id[1] # b.id[1]
                /\ a.val + 1 < builder_calls[i].seq

\* The lookup result is of the class of the entry: an equal value for Small
\* and Medium, Deleted for a Tombstone, Blob with the same sequence number
\* for a Blob.
Matches(value, found) ==
    CASE value.class \in {"Small", "Medium"} ->
            found.result = "Small" /\ found.value = value.value
      [] value.class = "Tombstone" -> found.result = "Deleted"
      [] value.class = "Blob" ->
            found.result = "Blob" /\ found.value = value.value

\* C22: with verify_sst_content, create_sst_file gets past an entry, and in
\* the end returns, only when the lookup result for the entry matches the
\* entry's class; any other result makes it panic.
C22_VerifyMatchesClass ==
    \A i \in DOMAIN verification.entries :
        (i < verification.at \/ verification.outcome = "ok")
        => Matches(verification.entries[i].value, verification.entries[i].lookup)

====
